---- MODULE Spec2Model ----
(***************************************************************************)
(* Channel-membership gate bot: the /start deep-link handler, the          *)
(* check_join polling endpoint, the /bot webhook, and the in-memory        *)
(* registry (APP_USER, APP_VERIFIED, APP_JOIN_SOURCE) they share.          *)
(*                                                                         *)
(* Every handler is a coroutine.  A step of the model is the code a        *)
(* handler runs between two awaits; handlers in different task slots       *)
(* interleave at those awaits.                                             *)
(***************************************************************************)
EXTENDS Integers, Sequences, FiniteSets, TLC

VARIABLES
    APP_USER, APP_VERIFIED, APP_JOIN_SOURCE,  \* the registry
    TELEGRAM_APP, ADMIN_IDS,
    program,   \* which of the two variants of the bot is deployed
    task,      \* the handlers in flight
    answer,    \* what the Telegram call awaited before the step just taken
               \* answered: a status from get_chat_member, the outcome of a send
    returned,  \* the handler that returned in the step just taken, if any
    last,      \* the last reconciliation that returned before that
    ops        \* operations issued so far

vars == <<APP_USER, APP_VERIFIED, APP_JOIN_SOURCE, TELEGRAM_APP, ADMIN_IDS,
          program, task, answer, returned, last, ops>>

config == <<TELEGRAM_APP, ADMIN_IDS, program>>

registry == <<APP_USER, APP_VERIFIED, APP_JOIN_SOURCE>>

(***************************************************************************)
(* Bounds of the model.                                                    *)
(***************************************************************************)
\* number of operations (updates and HTTP requests) the environment issues
MaxOps == 3

\* handlers that can be in flight at the same time
Tasks == {1, 2}

AppIds == {"X", "Y"}
UserIds == {1, 2}
AdminConfigs == {{}, {2, 3}}

(***************************************************************************)
(* Python values.  An Optional is a sequence of length 0 (None) or 1; a    *)
(* dict is a function whose DOMAIN is its key set.                         *)
(***************************************************************************)
None == << >>
Some(x) == << x >>

EmptyDict == [k \in {} |-> 0]

\* d.get(k, None)
DictGet(d, k) == IF k \in DOMAIN d THEN Some(d[k]) ELSE None

\* d[k] = v written as d.setdefault(k, v): the first value stays
DictSet_keep(d, k, v) ==
    [x \in (DOMAIN d) \cup {k} |-> IF x \in DOMAIN d THEN d[x] ELSE v]

\* d[k] = v written as d = {k: v}: the other entries are lost
DictSet_only(d, k, v) == [x \in {k} |-> v]

\* d[k] = v
DictSet(d, k, v) == [x \in (DOMAIN d) \cup {k} |-> IF x = k THEN v ELSE d[x]]

\* d.setdefault(k, v) written as d[k] = v
DictSetDefault_overwrite(d, k, v) == DictSet(d, k, v)

\* d.setdefault(k, v)
DictSetDefault(d, k, v) == IF k \in DOMAIN d THEN d ELSE DictSet(d, k, v)

(***************************************************************************)
(* Program constants.                                                      *)
(***************************************************************************)
UNKNOWN == 0
PRE_EXISTING_MEMBER == 1
JOINED_LATER == 2

\* the statuses getChatMember reports
Statuses == {"creator", "administrator", "member", "restricted", "left", "kicked"}

\* the Oracle call raised; check_join then sets status = None
Raised == "raised"

\* the classification without "administrator"
IsMemberStatus_short(status) == status \in {"member", "creator"}

\* status in ("member", "administrator", "creator")
IsMemberStatus(status) == status \in {"member", "administrator", "creator"}

\* is_admin that lets everyone in while no admin is configured
is_admin_open(user_id) == ADMIN_IDS = {} \/ user_id \in ADMIN_IDS

is_admin(user_id) == user_id \in ADMIN_IDS

(***************************************************************************)
(* Inbound updates.  The text of a message is the command followed by its  *)
(* whitespace-separated payload, the deep-link payload being the literal   *)
(* "join_" followed by the identifier.                                     *)
(***************************************************************************)
Texts ==
    {<<"/start">>, <<"/start", "hello">>, <<"/start@Bot", "join_", "X">>}
    \cup {<<"/start", "join_", a>> : a \in AppIds}

Updates == [user : {None} \cup {Some(u) : u \in UserIds}, text : Texts]

\* re.match(r"^/start(?:@\w+)?\s+join_(.+)$", text): the app_id, or None
MatchStart(text) ==
    IF /\ Len(text) = 3
       /\ text[1] \in {"/start", "/start@Bot"}
       /\ text[2] = "join_"
    THEN Some(text[3])
    ELSE None

(***************************************************************************)
(* A handler in flight.                                                    *)
(*   pc            where the coroutine is suspended                        *)
(*   kind          the handler                                             *)
(*   app_id, user  its arguments (check_join: the user_id it read)         *)
(*   prev_verified the value it read from APP_VERIFIED                     *)
(*   raised        get_chat_member raised                                  *)
(*   is_member     is_member_now of start, verified of check_join          *)
(*   reply         the text passed to reply_text                           *)
(*   replies       the reply_text calls it made                            *)
(*   code, body    the HTTP response                                       *)
(*   notifs        the notify_admins calls it made                         *)
(*   todo          admins the running notify_admins has not reached yet    *)
(*   oracle        the user ids it asked get_chat_member about             *)
(*   secret_ok     the caller presented the configured secret              *)
(*   messages      the chat ids it called send_message for, admin          *)
(*                 notifications apart                                     *)
(*   user_ids      cmd_send_all: the recipients not reached yet            *)
(*   sent, failed, errors   the counters and the error list of cmd_send_all*)
(*   sample        the errors quoted in the summary                        *)
(*   stats         the four counts cmd_stats reports                       *)
(***************************************************************************)
IdleTask ==
    [pc |-> "idle", kind |-> "none", app_id |-> "", user |-> 0,
     prev_verified |-> None, raised |-> FALSE, is_member |-> None,
     reply |-> "", replies |-> 0, code |-> 0, body |-> "", notifs |-> << >>, todo |-> {},
     oracle |-> << >>, secret_ok |-> TRUE, messages |-> << >>,
     user_ids |-> << >>, sent |-> 0, failed |-> 0, errors |-> << >>,
     sample |-> << >>, stats |-> << >>]

Free(t) == task[t].pc = "idle"

\* a new handler takes the first free slot, while the environment has
\* operations left to issue
Spawn(t) ==
    /\ Free(t)
    /\ \A s \in Tasks : s < t => ~Free(s)
    /\ ops < MaxOps
    /\ ops' = ops + 1

\* a handler that asked the Oracle
Reconciles(r) == r.oracle # << >>

\* what a handler learnt from the Oracle
Observed(r) ==
    IF r.raised THEN "raised"
    ELSE IF r.is_member = Some(TRUE) THEN "member"
    ELSE "not_member"

NoAnswer == ""
NoLast == [app_id |-> "", observed |-> ""]

Init ==
    /\ APP_USER = EmptyDict
    /\ APP_VERIFIED = EmptyDict
    /\ APP_JOIN_SOURCE = EmptyDict
    /\ TELEGRAM_APP = None
    /\ ADMIN_IDS \in AdminConfigs
    /\ program \in {"backend_bot", "JoinCloudFlare"}
    /\ task = [t \in Tasks |-> IdleTask]
    /\ answer = NoAnswer
    /\ returned = IdleTask
    /\ last = NoLast
    /\ ops = 0

\* the reconciliation that returned before the current step
Shift ==
    IF Reconciles(returned)
    THEN [app_id |-> returned.app_id, observed |-> Observed(returned)]
    ELSE last

\* handler t returns with record r
Finish(t, r) ==
    /\ task' = [task EXCEPT ![t] = IdleTask]
    /\ returned' = [r EXCEPT !.pc = "done"]
    /\ last' = Shift

\* handler t suspends at an await with record r
Suspend(t, r) ==
    /\ task' = [task EXCEPT ![t] = r]
    /\ returned' = IdleTask
    /\ last' = Shift

(***************************************************************************)
(* setup_telegram_application                                              *)
(***************************************************************************)
setup_telegram_application ==
    /\ TELEGRAM_APP = None
    /\ TELEGRAM_APP' = Some("application")
    /\ returned' = IdleTask
    /\ last' = Shift
    /\ answer' = NoAnswer
    /\ UNCHANGED <<registry, ADMIN_IDS, program, task, ops>>

(***************************************************************************)
(* HTTP responses                                                          *)
(***************************************************************************)
\* JSONResponse that ignores the flag
JSONResponse_true(r, verified) ==
    [r EXCEPT !.code = 200, !.body = "verified_true"]

JSONResponse(r, verified) ==
    [r EXCEPT !.code = 200,
              !.body = IF verified THEN "verified_true" ELSE "verified_false"]

HTTPException(r, status_code, detail) ==
    [r EXCEPT !.code = status_code, !.body = detail]

(***************************************************************************)
(* notify_admins(text, app): called, it returns at once when ADMIN_IDS is  *)
(* empty, otherwise it awaits one send per admin.                          *)
(***************************************************************************)
notify_admins(r, text, pcNotify, pcAfter) ==
    [r EXCEPT !.notifs = Append(@, text),
              !.todo = ADMIN_IDS,
              !.pc = IF ADMIN_IDS = {} THEN pcAfter ELSE pcNotify]

\* notify_send with the try around the loop: a failed send ends the loop
notify_send_abort(r, admin_id, ok) ==
    IF ok THEN [r EXCEPT !.todo = @ \ {admin_id}] ELSE [r EXCEPT !.todo = {}]

\* one send of the loop: send_message returns (ok) or raises; the exception
\* is logged and the loop goes on to the next admin
notify_send(r, admin_id, ok) ==
    [r EXCEPT !.todo = @ \ {admin_id}]

\* reply_text that sends nothing
reply_text_silent(r, text) ==
    [r EXCEPT !.pc = "s_reply"]

\* await message.reply_text(text)
reply_text(r, text) ==
    [r EXCEPT !.reply = text, !.replies = @ + 1, !.pc = "s_reply"]

\* what telegram_webhook answers once the handler it awaited has returned
Return(r) ==
    IF program = "JoinCloudFlare"
    THEN [r EXCEPT !.code = 200, !.body = "ok"]
    ELSE r

(***************************************************************************)
(* start, up to its first await                                            *)
(***************************************************************************)
\* start without APP_USER[app_id] = user.id
start_begin_no_claim(t, update) ==
    LET r0 == [IdleTask EXCEPT !.kind = "start"]
        m == MatchStart(update.text)
    IN  IF update.user = None
        THEN \* if not message or not user: return
             /\ Finish(t, Return(r0))
             /\ UNCHANGED registry
        ELSE IF m = None
        THEN /\ Suspend(t, reply_text([r0 EXCEPT !.user = update.user[1]],
                                      "greeting"))
             /\ UNCHANGED registry
        ELSE LET app_id == m[1]
                 user == update.user[1]
             IN  /\ APP_USER' = APP_USER
                 /\ Suspend(t, [r0 EXCEPT
                         !.app_id = app_id,
                         !.user = user,
                         !.prev_verified = DictGet(APP_VERIFIED, app_id),
                         !.oracle = Append(@, user),
                         !.pc = "s_oracle"])
                 /\ UNCHANGED <<APP_VERIFIED, APP_JOIN_SOURCE>>

start_begin(t, update) ==
    LET r0 == [IdleTask EXCEPT !.kind = "start"]
        m == MatchStart(update.text)
    IN  IF update.user = None
        THEN \* if not message or not user: return
             /\ Finish(t, Return(r0))
             /\ UNCHANGED registry
        ELSE IF m = None
        THEN /\ Suspend(t, reply_text([r0 EXCEPT !.user = update.user[1]],
                                      "greeting"))
             /\ UNCHANGED registry
        ELSE LET app_id == m[1]
                 user == update.user[1]
             IN  /\ APP_USER' = DictSet(APP_USER, app_id, user)
                 /\ Suspend(t, [r0 EXCEPT
                         !.app_id = app_id,
                         !.user = user,
                         !.prev_verified = DictGet(APP_VERIFIED, app_id),
                         !.oracle = Append(@, user),
                         !.pc = "s_oracle"])
                 /\ UNCHANGED <<APP_VERIFIED, APP_JOIN_SOURCE>>

(***************************************************************************)
(* start, from the answer of get_chat_member to its next await             *)
(***************************************************************************)
\* start_tag without its first branch
start_tag_no_pre_existing(prev_verified) ==
    IF prev_verified = Some(FALSE)
    THEN Some([join_source |-> JOINED_LATER, notif |-> "joined_later"])
    ELSE None

\* start_tag without its second branch
start_tag_no_joined_later(prev_verified) ==
    IF prev_verified = None
    THEN Some([join_source |-> PRE_EXISTING_MEMBER, notif |-> "pre_existing"])
    ELSE None

\* start_tag with else in place of elif prev_verified is False
start_tag_else(prev_verified) ==
    IF prev_verified = None
    THEN Some([join_source |-> PRE_EXISTING_MEMBER, notif |-> "pre_existing"])
    ELSE Some([join_source |-> JOINED_LATER, notif |-> "joined_later"])

\* the provenance tag and the notification start chooses for a member:
\* if prev_verified is None / elif prev_verified is False / neither
start_tag(prev_verified) ==
    IF prev_verified = None
    THEN Some([join_source |-> PRE_EXISTING_MEMBER, notif |-> "pre_existing"])
    ELSE IF prev_verified = Some(FALSE)
    THEN Some([join_source |-> JOINED_LATER, notif |-> "joined_later"])
    ELSE None

start_member(t, r) ==
    LET tag == start_tag(r.prev_verified)
    IN  /\ APP_VERIFIED' = DictSet(APP_VERIFIED, r.app_id, TRUE)
        /\ IF tag # None
           THEN /\ APP_JOIN_SOURCE' = DictSet(APP_JOIN_SOURCE, r.app_id, tag[1].join_source)
                /\ LET n == notify_admins(r, tag[1].notif, "s_notify", "return")
                   IN  IF n.pc = "return"
                       THEN Suspend(t, reply_text(n, "success"))
                       ELSE Suspend(t, n)
           ELSE /\ APP_JOIN_SOURCE' = APP_JOIN_SOURCE
                /\ Suspend(t, reply_text(r, "success"))

start_not_member(t, r) ==
    /\ APP_VERIFIED' = DictSet(APP_VERIFIED, r.app_id, FALSE)
    /\ APP_JOIN_SOURCE' = DictSetDefault(APP_JOIN_SOURCE, r.app_id, UNKNOWN)
    /\ Suspend(t, reply_text(r, "not_member"))

start_oracle(t) ==
    /\ task[t].pc = "s_oracle"
    /\ \E status \in Statuses \cup {Raised} :
        /\ answer' = status
        /\ IF status = Raised
           THEN /\ Suspend(t, reply_text([task[t] EXCEPT !.raised = TRUE],
                                         "error"))
                /\ UNCHANGED <<APP_VERIFIED, APP_JOIN_SOURCE>>
           ELSE IF IsMemberStatus(status)
           THEN start_member(t, [task[t] EXCEPT !.is_member = Some(TRUE)])
           ELSE start_not_member(t, [task[t] EXCEPT !.is_member = Some(FALSE)])
    /\ UNCHANGED <<APP_USER, config, ops>>

\* reply_text returns and the handler with it
start_reply(t) ==
    /\ task[t].pc = "s_reply"
    /\ Finish(t, Return(task[t]))
    /\ answer' = NoAnswer
    /\ UNCHANGED <<registry, config, ops>>

(***************************************************************************)
(* one send of the notify_admins loop returns or raises; after the last    *)
(* one notify_admins returns to its caller, which goes on to its reply     *)
(***************************************************************************)
notify_step(t) ==
    /\ task[t].pc \in {"s_notify", "c_notify"}
    /\ \E admin_id \in task[t].todo, ok \in BOOLEAN :
        LET r == notify_send(task[t], admin_id, ok)
        IN  /\ answer' = IF ok THEN "sent" ELSE "send_raised"
            /\ IF r.todo # {}
               THEN Suspend(t, r)
               ELSE IF r.kind = "start"
               THEN Suspend(t, reply_text(r, "success"))
               ELSE Finish(t, JSONResponse(r, r.is_member = Some(TRUE)))
    /\ UNCHANGED <<registry, config, ops>>

(***************************************************************************)
(* check_join                                                              *)
(***************************************************************************)
\* requests reach api once the module is imported: JoinCloudFlare.py runs
\* setup_telegram_application while it is imported, backend_bot.py does not
Serving == program = "backend_bot" \/ TELEGRAM_APP # None

\* check_join_begin with the initialization check ahead of the secret check
check_join_begin_ready_first(t, app_id, secret_ok) ==
    LET r0 == [IdleTask EXCEPT !.kind = "check_join", !.app_id = app_id,
                               !.secret_ok = secret_ok]
        user_id == DictGet(APP_USER, app_id)
    IN  /\ Serving
        /\ Spawn(t)
        /\ IF TELEGRAM_APP = None
           THEN Finish(t, HTTPException(r0, 500, "bot_not_ready"))
           ELSE IF ~secret_ok
           THEN Finish(t, HTTPException(r0, 403, "forbidden"))
           ELSE IF user_id = None
           THEN Finish(t, JSONResponse(r0, FALSE))
           ELSE Suspend(t, [r0 EXCEPT
                    !.user = user_id[1],
                    !.prev_verified = DictGet(APP_VERIFIED, app_id),
                    !.oracle = Append(@, user_id[1]),
                    !.pc = "c_oracle"])
        /\ answer' = NoAnswer
        /\ UNCHANGED <<registry, config>>

check_join_begin(t, app_id, secret_ok) ==
    LET r0 == [IdleTask EXCEPT !.kind = "check_join", !.app_id = app_id,
                               !.secret_ok = secret_ok]
        user_id == DictGet(APP_USER, app_id)
    IN  /\ Serving
        /\ Spawn(t)
        /\ IF ~secret_ok
           THEN Finish(t, HTTPException(r0, 403, "forbidden"))
           ELSE IF TELEGRAM_APP = None
           THEN Finish(t, HTTPException(r0, 500, "bot_not_ready"))
           ELSE IF user_id = None
           THEN Finish(t, JSONResponse(r0, FALSE))
           ELSE Suspend(t, [r0 EXCEPT
                    !.user = user_id[1],
                    !.prev_verified = DictGet(APP_VERIFIED, app_id),
                    !.oracle = Append(@, user_id[1]),
                    !.pc = "c_oracle"])
        /\ answer' = NoAnswer
        /\ UNCHANGED <<registry, config>>

\* check_join_verified with verified = True in the except branch
check_join_verified_optimistic(status) ==
    IF status = Raised THEN TRUE ELSE IsMemberStatus(status)

\* verified: the classified status, False when get_chat_member raised
check_join_verified(status) ==
    IF status = Raised THEN FALSE ELSE IsMemberStatus(status)

check_join_oracle(t) ==
    /\ task[t].pc = "c_oracle"
    /\ \E status \in Statuses \cup {Raised} :
        LET verified == check_join_verified(status)
            r == [task[t] EXCEPT !.raised = (status = Raised),
                                 !.is_member = Some(verified)]
        IN  /\ answer' = status
            /\ APP_VERIFIED' = DictSet(APP_VERIFIED, r.app_id, verified)
            /\ IF verified /\ r.prev_verified = Some(FALSE)
               THEN /\ APP_JOIN_SOURCE' = DictSet(APP_JOIN_SOURCE, r.app_id, JOINED_LATER)
                    /\ Suspend(t, [r EXCEPT !.pc = "c_getchat"])
               ELSE /\ APP_JOIN_SOURCE' = APP_JOIN_SOURCE
                    /\ Finish(t, JSONResponse(r, verified))
    /\ UNCHANGED <<APP_USER, config, ops>>

\* get_chat returns or raises; either way notify_admins is called next
check_join_getchat(t) ==
    /\ task[t].pc = "c_getchat"
    /\ LET r == notify_admins(task[t], "joined_later_check_join", "c_notify", "return")
       IN  IF r.pc = "return"
           THEN Finish(t, JSONResponse(r, r.is_member = Some(TRUE)))
           ELSE Suspend(t, r)
    /\ answer' = NoAnswer
    /\ UNCHANGED <<registry, config, ops>>

(***************************************************************************)
(* Entry points for updates: the updater of backend_bot.py and the         *)
(* POST /bot webhook of JoinCloudFlare.py.                                 *)
(***************************************************************************)
\* the updater hands the next update to its handler once the handler of
\* the update before it has returned
poll_update(t, update) ==
    /\ program = "backend_bot"
    /\ TELEGRAM_APP # None
    /\ \A s \in Tasks : task[s].kind # "start"
    /\ Spawn(t)
    /\ start_begin(t, update)
    /\ answer' = NoAnswer
    /\ UNCHANGED config

\* secret_ok: the request carries the secret header the platform was given
telegram_webhook(t, secret_ok) ==
    LET r0 == [IdleTask EXCEPT !.kind = "telegram_webhook",
                               !.secret_ok = secret_ok]
    IN  /\ program = "JoinCloudFlare"
        /\ Serving
        /\ Spawn(t)
        /\ IF TELEGRAM_APP = None
           THEN Finish(t, HTTPException(r0, 500, "bot_not_ready"))
           ELSE Suspend(t, [r0 EXCEPT !.pc = "w_body"])
        /\ answer' = NoAnswer
        /\ UNCHANGED <<registry, config>>

Bodies ==
    {[kind |-> "not_json"], [kind |-> "not_an_update"]}
    \cup {[kind |-> "update", update |-> u] : u \in Updates}

\* request.json() returns or raises; the update is deserialized and processed
webhook_body(t) ==
    /\ task[t].pc = "w_body"
    /\ \E body \in Bodies :
        IF body.kind = "not_json"
        THEN /\ Finish(t, HTTPException(task[t], 500, "server_error"))
             /\ UNCHANGED registry
        ELSE IF body.kind = "not_an_update"
        THEN /\ Finish(t, [task[t] EXCEPT !.code = 200, !.body = "error"])
             /\ UNCHANGED registry
        ELSE start_begin(t, body.update)
    /\ answer' = NoAnswer
    /\ UNCHANGED <<config, ops>>

Next ==
    \/ setup_telegram_application
    \/ \E t \in Tasks, update \in Updates : poll_update(t, update)
    \/ \E t \in Tasks, secret_ok \in BOOLEAN : telegram_webhook(t, secret_ok)
    \/ \E t \in Tasks : webhook_body(t)
    \/ \E t \in Tasks : start_oracle(t)
    \/ \E t \in Tasks : notify_step(t)
    \/ \E t \in Tasks : start_reply(t)
    \/ \E t \in Tasks, app_id \in AppIds, secret_ok \in BOOLEAN :
            check_join_begin(t, app_id, secret_ok)
    \/ \E t \in Tasks : check_join_oracle(t)
    \/ \E t \in Tasks : check_join_getchat(t)

\* handlers interleave at their awaits
Spec == Init /\ [][Next]_vars

\* handlers run one after the other: an operation is issued only once the
\* handler before it has returned
Sequential == \A t \in Tasks : Free(t)

NextSeq ==
    \/ setup_telegram_application
    \/ \E t \in Tasks, update \in Updates : Sequential /\ poll_update(t, update)
    \/ \E t \in Tasks, secret_ok \in BOOLEAN :
            Sequential /\ telegram_webhook(t, secret_ok)
    \/ \E t \in Tasks : webhook_body(t)
    \/ \E t \in Tasks : start_oracle(t)
    \/ \E t \in Tasks : notify_step(t)
    \/ \E t \in Tasks : start_reply(t)
    \/ \E t \in Tasks, app_id \in AppIds, secret_ok \in BOOLEAN :
            Sequential /\ check_join_begin(t, app_id, secret_ok)
    \/ \E t \in Tasks : check_join_oracle(t)
    \/ \E t \in Tasks : check_join_getchat(t)

SpecSeq == Init /\ [][NextSeq]_vars

\* the event loop resumes a handler whose awaited call has completed, and
\* every call to Telegram returns or raises
Fairness ==
    /\ WF_vars(\E t \in Tasks : webhook_body(t))
    /\ WF_vars(\E t \in Tasks : start_oracle(t))
    /\ WF_vars(\E t \in Tasks : notify_step(t))
    /\ WF_vars(\E t \in Tasks : start_reply(t))
    /\ WF_vars(\E t \in Tasks : check_join_oracle(t))
    /\ WF_vars(\E t \in Tasks : check_join_getchat(t))

SpecFair == Spec /\ Fairness

SpecSeqFair == SpecSeq /\ Fairness

\* the runs in which every user is a member throughout: get_chat_member
\* reports a member status or raises, handlers running one after the other
NextMemberThroughout == NextSeq /\ answer' \notin {"restricted", "left", "kicked"}

SpecMemberThroughout == Init /\ [][NextMemberThroughout]_vars

(***************************************************************************)
(* Admin commands: cmd_menu, cmd_stats, cmd_send_all, cmd_send.  The text  *)
(* of a command message is the command followed by its arguments           *)
(* (context.args).                                                         *)
(***************************************************************************)
CommandTexts ==
    {<<"/menu">>, <<"/stats">>, <<"/sendall">>, <<"/sendAll", "hello">>,
     <<"/send">>, <<"/send", "1">>, <<"/send", "1", "hello">>,
     <<"/send", "abc", "hello">>}

\* reply_to: the text of the message the command replies to, if any
CommandUpdates ==
    [user : {None} \cup {Some(u) : u \in UserIds},
     text : CommandTexts,
     reply_to : {None, Some("replied")}]

\* the handler CommandHandler routes the message to (commands are matched
\* without regard to case)
CommandOf(text) ==
    IF text[1] = "/menu" THEN "cmd_menu"
    ELSE IF text[1] = "/stats" THEN "cmd_stats"
    ELSE IF text[1] \in {"/sendall", "/sendAll"} THEN "cmd_send_all"
    ELSE "cmd_send"

\* if not user or not msg or not is_admin(user.id): return
Authorized(update) == update.user # None /\ is_admin(update.user[1])

\* the record of a command handler just entered
Entered(kind, update) ==
    [IdleTask EXCEPT !.kind = kind,
                     !.user = IF update.user = None THEN 0 ELSE update.user[1]]

cmd_menu(t, update) ==
    IF ~Authorized(update)
    THEN Finish(t, Return(Entered("cmd_menu", update)))
    ELSE Suspend(t, reply_text(Entered("cmd_menu", update), "menu"))

\* d.values(), as a set
Values(d) == {d[k] : k \in DOMAIN d}

\* len(APP_USER), distinct users, verified app_ids, distinct verified users
Stats ==
    << Cardinality(DOMAIN APP_USER),
       Cardinality(Values(APP_USER) \ {0}),
       Cardinality({a \in DOMAIN APP_VERIFIED : APP_VERIFIED[a]}),
       Cardinality({APP_USER[a] : a \in {x \in DOMAIN APP_VERIFIED :
                                           APP_VERIFIED[x] /\ x \in DOMAIN APP_USER}}) >>

cmd_stats(t, update) ==
    IF ~Authorized(update)
    THEN Finish(t, Return(Entered("cmd_stats", update)))
    ELSE Suspend(t, reply_text([Entered("cmd_stats", update) EXCEPT !.stats = Stats],
                               "stats"))

\* sorted(S)
RECURSIVE Sorted(_)
Sorted(S) ==
    IF S = {} THEN << >>
    ELSE LET m == CHOOSE x \in S : \A y \in S : x <= y
         IN  << m >> \o Sorted(S \ {m})

\* the text cmd_send_all broadcasts: the replied-to text, or what follows
\* the command (re.match(r"^/sendall(?:@\w+)?\s+(.+)$", ..., re.S | re.I))
SendAllText(update) ==
    IF update.reply_to # None THEN update.reply_to
    ELSE IF Len(update.text) >= 2 THEN Some(update.text[2])
    ELSE None

\* the number of errors the summary quotes: errors[:10]
ErrorSample == 10

Min(a, b) == IF a <= b THEN a ELSE b

\* errors[:10]
Slice(errors) == SubSeq(errors, 1, Min(ErrorSample, Len(errors)))

\* the loop of cmd_send_all skipping the recipient after a failed one
send_all_failed_skip(r) ==
    [r EXCEPT !.failed = @ + 1,
              !.errors = Append(@, Head(r.user_ids)),
              !.user_ids = IF Len(@) > 1 THEN Tail(Tail(@)) ELSE Tail(@)]

\* except Exception: failed += 1; errors.append(...)
send_all_failed(r) ==
    [r EXCEPT !.failed = @ + 1,
              !.errors = Append(@, Head(r.user_ids)),
              !.user_ids = Tail(@)]

\* the head of the loop: send to the next recipient, or reply the summary
send_all_next(r) ==
    IF r.user_ids = << >>
    THEN reply_text([r EXCEPT !.sample = Slice(r.errors)], "summary")
    ELSE [r EXCEPT !.messages = Append(@, Head(r.user_ids)), !.pc = "a_send"]

cmd_send_all(t, update) ==
    LET r0 == Entered("cmd_send_all", update)
        text == SendAllText(update)
        user_ids == Sorted(Values(APP_USER) \ {0})
    IN  IF ~Authorized(update)
        THEN Finish(t, Return(r0))
        ELSE IF text = None
        THEN Suspend(t, reply_text(r0, "usage"))
        ELSE IF user_ids = << >>
        THEN Suspend(t, reply_text(r0, "no_users"))
        ELSE Suspend(t, [reply_text(r0, "started") EXCEPT
                            !.user_ids = user_ids, !.pc = "a_started"])

\* the reply or the sleep the loop awaited returns; a send returns or raises
send_all_step(t) ==
    /\ task[t].pc \in {"a_started", "a_sleep", "a_send"}
    /\ IF task[t].pc = "a_send"
       THEN \E ok \in BOOLEAN :
               /\ answer' = IF ok THEN "sent" ELSE "send_raised"
               /\ IF ok
                  THEN Suspend(t, [task[t] EXCEPT !.sent = @ + 1,
                                                  !.user_ids = Tail(@),
                                                  !.pc = "a_sleep"])
                  ELSE Suspend(t, send_all_next(send_all_failed(task[t])))
       ELSE /\ answer' = NoAnswer
            /\ Suspend(t, send_all_next(task[t]))
    /\ UNCHANGED <<registry, config, ops>>

\* int(context.args[0]), None for ValueError
ParseInt(token) ==
    IF \E u \in UserIds : ToString(u) = token
    THEN Some(CHOOSE u \in UserIds : ToString(u) = token)
    ELSE None

cmd_send(t, update) ==
    LET r0 == Entered("cmd_send", update)
        args == Tail(update.text)
    IN  IF ~Authorized(update)
        THEN Finish(t, Return(r0))
        ELSE IF Len(args) < 2
        THEN Suspend(t, reply_text(r0, "usage"))
        ELSE IF ParseInt(args[1]) = None
        THEN Suspend(t, reply_text(r0, "not_a_number"))
        ELSE Suspend(t, [r0 EXCEPT !.messages = Append(@, ParseInt(args[1])[1]),
                                   !.pc = "a_target"])

\* the send of cmd_send returns, raises TelegramError or raises otherwise
cmd_send_result(t) ==
    /\ task[t].pc = "a_target"
    /\ \E outcome \in {"sent", "telegram_error", "internal_error"} :
        /\ answer' = IF outcome = "sent" THEN "sent" ELSE "send_raised"
        /\ Suspend(t, reply_text(task[t], outcome))
    /\ UNCHANGED <<registry, config, ops>>

\* an update with a command reaches its handler, once the handler of the
\* update before it has returned
command_update(t, update) ==
    /\ TELEGRAM_APP # None
    /\ \A s \in Tasks : Free(s)
    /\ Spawn(t)
    /\ LET kind == CommandOf(update.text)
       IN  IF kind = "cmd_menu" THEN cmd_menu(t, update)
           ELSE IF kind = "cmd_stats" THEN cmd_stats(t, update)
           ELSE IF kind = "cmd_send_all" THEN cmd_send_all(t, update)
           ELSE cmd_send(t, update)
    /\ answer' = NoAnswer
    /\ UNCHANGED <<registry, config>>

(***************************************************************************)
(* The admin commands over a registry that earlier /start calls have       *)
(* filled: app_id i claimed by its own user or, two by two, by a shared    *)
(* one, and found a member (odd i) or not.                                 *)
(***************************************************************************)
\* app_ids registered before the commands arrive
MaxRegistered == 11

AppKey(i) == "app" \o ToString(i)

Registered(n, share) ==
    [a \in {AppKey(i) : i \in 1..n} |->
        LET i == CHOOSE j \in 1..n : AppKey(j) = a
        IN  [user |-> (i + share - 1) \div share, member |-> i % 2 = 1]]

InitAdmin ==
    \E n \in 0..MaxRegistered, share \in {1, 2} :
        LET reg == Registered(n, share)
        IN  /\ APP_USER = [a \in DOMAIN reg |-> reg[a].user]
            /\ APP_VERIFIED = [a \in DOMAIN reg |-> reg[a].member]
            /\ APP_JOIN_SOURCE = [a \in DOMAIN reg |->
                    IF reg[a].member THEN PRE_EXISTING_MEMBER ELSE UNKNOWN]
            /\ TELEGRAM_APP = None
            /\ ADMIN_IDS \in AdminConfigs
            /\ program \in {"backend_bot", "JoinCloudFlare"}
            /\ task = [t \in Tasks |-> IdleTask]
            /\ answer = NoAnswer
            /\ returned = IdleTask
            /\ last = NoLast
            /\ ops = 0

NextAdmin ==
    \/ setup_telegram_application
    \/ \E t \in Tasks, update \in CommandUpdates : command_update(t, update)
    \/ \E t \in Tasks : send_all_step(t)
    \/ \E t \in Tasks : cmd_send_result(t)
    \/ \E t \in Tasks : start_reply(t)

SpecAdmin == InitAdmin /\ [][NextAdmin]_vars

\* the event loop resumes a handler whose awaited call has completed, and
\* every call to Telegram returns or raises
SpecAdminFair ==
    /\ SpecAdmin
    /\ WF_vars(\E t \in Tasks : send_all_step(t))
    /\ WF_vars(\E t \in Tasks : cmd_send_result(t))
    /\ WF_vars(\E t \in Tasks : start_reply(t))

(***************************************************************************)
(* Properties.                                                             *)
(***************************************************************************)
Verified(app_id) == DictGet(APP_VERIFIED, app_id)
JoinSource(app_id) == DictGet(APP_JOIN_SOURCE, app_id)

\* the record of handler t after the step: it returned or it is suspended
Post(t) == IF task'[t].pc = "idle" THEN returned' ELSE task'[t]

\* the step is the one in which get_chat_member answers handler t
OracleStep(t) ==
    /\ task[t].pc \in {"s_oracle", "c_oracle"}
    /\ task'[t] # task[t]

MemberClass == {"member", "administrator", "creator"}

\* C1: a /start join_<app_id> for an app_id with no registry entry that
\* observes a member status ends with verified = true and join_source = 1
\* and has called the admin notification fan-out exactly once.  (An app_id
\* without registry entry has no verified entry, which is what start reads.)
C1_FreshMemberStart ==
    (/\ returned.kind = "start"
     /\ returned.prev_verified = None
     /\ Observed(returned) = "member")
    => /\ Verified(returned.app_id) = Some(TRUE)
       /\ JoinSource(returned.app_id) = Some(1)
       /\ Len(returned.notifs) = 1

\* the first handler ever to touch the registry is a /start that finds a
\* member; a second app_id is still without any entry
C1_Witness ==
    /\ returned.kind = "start"
    /\ last = NoLast
    /\ DOMAIN APP_USER = {returned.app_id}
    /\ DOMAIN APP_VERIFIED = {returned.app_id}
    /\ returned.prev_verified = None
    /\ Observed(returned) = "member"
    /\ returned.reply = "success"

\* C2: when a reconciliation that observed non-member is followed by one
\* (by /start or check_join) that observes member, join_source ends at 2,
\* the first made no notification call and the second exactly one.
C2_JoinedLater ==
    /\ (Reconciles(returned) /\ Observed(returned) = "not_member")
       => returned.notifs = << >>
    /\ (/\ Reconciles(returned)
        /\ last.app_id = returned.app_id
        /\ last.observed = "not_member"
        /\ Observed(returned) = "member")
       => /\ JoinSource(returned.app_id) = Some(2)
          /\ Len(returned.notifs) = 1

C2_Witness ==
    /\ Reconciles(returned)
    /\ returned.kind = "check_join"
    /\ last.app_id = returned.app_id
    /\ last.observed = "not_member"
    /\ Observed(returned) = "member"

\* C3: of two consecutive reconciliations that both observe member, the
\* second leaves verified = true, does not change join_source and makes no
\* notification call.
C3_SecondMemberQuiet ==
    /\ [][\A t \in Tasks :
            (/\ OracleStep(t)
             /\ last.app_id = task[t].app_id
             /\ last.observed = "member"
             /\ answer' \in MemberClass)
            => /\ APP_JOIN_SOURCE' = APP_JOIN_SOURCE
               /\ DictGet(APP_VERIFIED', task[t].app_id) = Some(TRUE)
               /\ Post(t).notifs = << >>]_vars
    /\ []((/\ Reconciles(returned)
           /\ last.app_id = returned.app_id
           /\ last.observed = "member"
           /\ Observed(returned) = "member")
          => /\ Verified(returned.app_id) = Some(TRUE)
             /\ returned.notifs = << >>)

C3_Witness ==
    /\ Reconciles(returned)
    /\ last.app_id = returned.app_id
    /\ last.observed = "member"
    /\ Observed(returned) = "member"
    /\ returned.kind = "start"

\* the provenance tag as the claims read it: 0 while unset or UNKNOWN
Tag(d, app_id) == IF app_id \in DOMAIN d THEN d[app_id] ELSE 0

\* C4 as stated: once join_source is 1 or 2 it never changes to another
\* value.
C4_TagNeverChanges ==
    [][\A a \in AppIds :
            Tag(APP_JOIN_SOURCE, a) \in {1, 2}
            => Tag(APP_JOIN_SOURCE', a) = Tag(APP_JOIN_SOURCE, a)]_vars

\* C4, amended: a join_source entry is never removed, and once it is 1 or
\* 2 it never returns to UNKNOWN; it can still change between 1 and 2.
C4_TagNeverReset ==
    [][\A a \in AppIds :
            /\ a \in DOMAIN APP_JOIN_SOURCE => a \in DOMAIN APP_JOIN_SOURCE'
            /\ Tag(APP_JOIN_SOURCE, a) \in {1, 2}
               => Tag(APP_JOIN_SOURCE', a) \in {1, 2}]_vars

\* the handler that wrote 1 is still in flight and the tag already reads 2
C4_Witness ==
    \E t \in Tasks :
        /\ task[t].kind = "start"
        /\ task[t].notifs = <<"pre_existing">>
        /\ JoinSource(task[t].app_id) = Some(2)

\* C5: join_source becomes 1 only in a step that takes the stored verified
\* from unknown to true, and becomes 2 only in a step that takes it from
\* false to true.
C5_TagFollowsStoredVerified ==
    [][\A a \in AppIds :
            /\ (JoinSource(a) # Some(1) /\ DictGet(APP_JOIN_SOURCE', a) = Some(1))
               => (Verified(a) = None /\ DictGet(APP_VERIFIED', a) = Some(TRUE))
            /\ (JoinSource(a) # Some(2) /\ DictGet(APP_JOIN_SOURCE', a) = Some(2))
               => (Verified(a) = Some(FALSE) /\ DictGet(APP_VERIFIED', a) = Some(TRUE))]_vars

\* the decision table of the reconciliation, for an observed membership;
\* an unset join_source reads as UNKNOWN
TableJoinSource(join_source, prev_verified, observed) ==
    IF observed /\ prev_verified = None THEN PRE_EXISTING_MEMBER
    ELSE IF observed /\ prev_verified = Some(FALSE) THEN JOINED_LATER
    ELSE join_source

TableNotifies(prev_verified, observed) ==
    observed /\ prev_verified # Some(TRUE)

\* C6: check_join applies the decision table of /start: the verified
\* value, the join_source and the notification decision it reaches for an
\* observed membership are those of the table.
C6_CheckJoinFollowsTable ==
    [][\A t \in Tasks :
            (/\ OracleStep(t)
             /\ task[t].kind = "check_join"
             /\ answer' \in Statuses)
            => LET a == task[t].app_id
                   observed == answer' \in MemberClass
               IN  /\ DictGet(APP_VERIFIED', a) = Some(observed)
                   /\ Tag(APP_JOIN_SOURCE', a)
                        = TableJoinSource(Tag(APP_JOIN_SOURCE, a),
                                          task[t].prev_verified, observed)
                   /\ (Post(t).pc = "c_getchat")
                        = TableNotifies(task[t].prev_verified, observed)]_vars

\* C7 as stated: a check_join with the correct secret for an app_id that
\* was never claimed answers verified:false, asks the Oracle nothing, makes
\* no notification call and leaves the registry as it was.
C7_UnclaimedCheckJoin ==
    [][(/\ returned'.pc = "done"
        /\ returned'.kind = "check_join"
        /\ returned'.secret_ok
        /\ returned'.app_id \notin DOMAIN APP_USER)
       => /\ returned'.code = 200
          /\ returned'.body = "verified_false"
          /\ returned'.oracle = << >>
          /\ returned'.notifs = << >>
          /\ registry' = registry]_vars

\* C7, amended: the same, for a check_join that arrives once the bot is
\* initialized.
C7_UnclaimedCheckJoinInitialized ==
    [][(/\ returned'.pc = "done"
        /\ returned'.kind = "check_join"
        /\ returned'.secret_ok
        /\ TELEGRAM_APP # None
        /\ returned'.app_id \notin DOMAIN APP_USER)
       => /\ returned'.code = 200
          /\ returned'.body = "verified_false"
          /\ returned'.oracle = << >>
          /\ returned'.notifs = << >>
          /\ registry' = registry]_vars

\* an unclaimed app_id is polled while another app_id is verified
C7_Witness ==
    /\ returned.kind = "check_join"
    /\ returned.secret_ok
    /\ TELEGRAM_APP # None
    /\ returned.app_id \notin DOMAIN APP_USER
    /\ returned.body = "verified_false"
    /\ \E a \in AppIds : Verified(a) = Some(TRUE)

\* C8: a check_join with the correct secret for a claimed app_id asks the
\* Oracle exactly once, about the user_id it read from the registry; it
\* answers 200 with verified:true exactly when the status is member,
\* administrator or creator, verified:false for any other status and when
\* the Oracle call raised; and it answers the value it stored.
C8_CheckJoinAnswer ==
    /\ [][\A t \in Tasks :
            /\ (task[t].pc = "idle" /\ task'[t].pc = "c_oracle")
               => /\ task'[t].secret_ok
                  /\ task'[t].app_id \in DOMAIN APP_USER
                  /\ task'[t].oracle = << APP_USER[task'[t].app_id] >>
            /\ (OracleStep(t) /\ task[t].kind = "check_join")
               => LET v == answer' \in MemberClass
                  IN  /\ DictGet(APP_VERIFIED', task[t].app_id) = Some(v)
                      /\ Post(t).is_member = Some(v)
                      /\ Post(t).oracle = task[t].oracle]_vars
    /\ []((returned.kind = "check_join" /\ Reconciles(returned))
          => /\ Len(returned.oracle) = 1
             /\ returned.code = 200
             /\ returned.body = IF returned.is_member = Some(TRUE)
                                THEN "verified_true" ELSE "verified_false")
    /\ []((/\ returned.kind = "check_join"
           /\ returned.secret_ok
           /\ returned.app_id \in DOMAIN APP_USER
           /\ TELEGRAM_APP # None)
          => Reconciles(returned))

C8_Witness ==
    /\ returned.kind = "check_join"
    /\ Reconciles(returned)
    /\ answer = "administrator"
    /\ returned.body = "verified_true"

\* C9: a handler whose get_chat_member call raised never marks the session
\* verified: check_join stores false; /start in addition leaves verified
\* and join_source as they were, makes no notification call and replies
\* with the error message.
C9_OracleFailure ==
    /\ [][\A t \in Tasks :
            /\ (OracleStep(t) /\ answer' = Raised)
               => /\ Post(t).notifs = << >>
                  /\ task[t].kind = "check_join"
                     => /\ DictGet(APP_VERIFIED', task[t].app_id) = Some(FALSE)
                        /\ Post(t).body = "verified_false"
            /\ (task[t].kind = "start" /\ task'[t] # task[t]
                    /\ (task[t].raised \/ answer' = Raised))
               => /\ APP_VERIFIED' = APP_VERIFIED
                  /\ APP_JOIN_SOURCE' = APP_JOIN_SOURCE
                  /\ Post(t).reply = "error"
                  /\ Post(t).notifs = << >>]_vars
    /\ []((returned.kind = "start" /\ returned.raised)
          => returned.reply = "error" /\ returned.notifs = << >>)

\* a /start of a verified session returns after its lookup failed
C9_Witness ==
    /\ returned.kind = "start"
    /\ returned.raised
    /\ returned.reply = "error"
    /\ Verified(returned.app_id) = Some(TRUE)

\* C10: a POST /bot whose secret header does not match is answered with an
\* unauthorized status and its update reaches no handler.
C10_WebhookSecret ==
    /\ [][\A t \in Tasks :
            (task[t].pc = "w_body" /\ ~task[t].secret_ok)
            => /\ registry' = registry
               /\ Post(t).kind = "telegram_webhook"]_vars
    /\ []((returned.kind = "telegram_webhook" /\ ~returned.secret_ok)
          => returned.code = 401)

\* C11: once the bot is initialized, every POST /bot call is answered with
\* status 200, whatever its body is and whatever its processing does.
C11_WebhookAlwaysAcknowledged ==
    (/\ program = "JoinCloudFlare"
     /\ TELEGRAM_APP # None
     /\ returned.kind \in {"telegram_webhook", "start"})
    => returned.code = 200

\* C12: a check_join whose secret differs from the configured one is
\* answered 403 before anything else: whether or not the bot is initialized
\* and whether or not the app_id is claimed, it asks the Oracle nothing and
\* leaves the registry as it was; 500 is answered only to a request with
\* the correct secret while the bot is not initialized.
C12_ForbiddenFirst ==
    /\ [][(/\ returned'.pc = "done"
            /\ returned'.kind = "check_join"
            /\ ~returned'.secret_ok)
           => /\ returned'.code = 403
              /\ returned'.body = "forbidden"
              /\ returned'.oracle = << >>
              /\ returned'.notifs = << >>
              /\ registry' = registry]_vars
    /\ []((returned.kind = "check_join" /\ returned.code = 500)
          => (returned.secret_ok /\ TELEGRAM_APP = None))
    /\ []((returned.kind = "check_join" /\ returned.secret_ok
                /\ TELEGRAM_APP = None)
          => returned.code = 500)

\* a request with a wrong secret for a claimed, verified app_id
C12_Witness ==
    /\ returned.kind = "check_join"
    /\ ~returned.secret_ok
    /\ returned.code = 403
    /\ Verified(returned.app_id) = Some(TRUE)

AdminKinds == {"cmd_menu", "cmd_stats", "cmd_send_all", "cmd_send"}

\* C13: an admin command (menu, stats, sendall, send) from a user who is
\* not in the admin set returns at once: no reply, no message to anyone, no
\* change of the registry; no such handler is ever suspended at a call.
C13_UnauthorizedSilent ==
    /\ [][(/\ returned'.pc = "done"
           /\ returned'.kind \in AdminKinds
           /\ returned'.user \notin ADMIN_IDS)
          => /\ \A t \in Tasks : Free(t)
             /\ returned'.replies = 0
             /\ returned'.reply = ""
             /\ returned'.messages = << >>
             /\ returned'.notifs = << >>
             /\ registry' = registry]_vars
    /\ [](\A t \in Tasks :
            task[t].kind \in AdminKinds => task[t].user \in ADMIN_IDS)

\* a registered user who is no admin asks for a broadcast while admins and
\* registered users exist
C13_Witness ==
    /\ returned.kind = "cmd_send_all"
    /\ returned.user \in Values(APP_USER)
    /\ returned.user \notin ADMIN_IDS
    /\ ADMIN_IDS # {}
    /\ returned.replies = 0

\* the recipients of a broadcast: the distinct user ids of the registry
Recipients == Sorted(Values(APP_USER) \ {0})

NoDuplicates(seq) == \A i, j \in 1..Len(seq) : seq[i] = seq[j] => i = j

\* C14: a broadcast sends once to each of the N distinct user ids the
\* registry holds when the command starts, in every combination of
\* successes and failures; it terminates, its summary reports
\* sent + failed = N, every failed recipient has exactly one entry in the
\* error list, and the summary quotes at most 10 of them.
C14_Broadcast ==
    /\ [](\A t \in Tasks :
            task[t].pc \in {"a_started", "a_send", "a_sleep"}
            => LET r == task[t]
                   pending == IF r.pc = "a_send" THEN 1 ELSE 0
               IN  /\ r.messages = SubSeq(Recipients, 1, Len(r.messages))
                   /\ r.sent + r.failed + pending = Len(r.messages)
                   /\ Len(r.messages) - pending + Len(r.user_ids) = Len(Recipients)
                   /\ Len(r.errors) = r.failed)
    /\ []((returned.kind = "cmd_send_all" /\ returned.reply = "summary")
          => /\ returned.messages = Recipients
             /\ returned.sent + returned.failed = Len(Recipients)
             /\ Len(returned.errors) = returned.failed
             /\ NoDuplicates(returned.errors)
             /\ \A i \in 1..Len(returned.errors) :
                    \E j \in 1..Len(Recipients) : returned.errors[i] = Recipients[j]
             /\ Len(returned.sample) <= 10
             /\ returned.sample = SubSeq(returned.errors, 1, Len(returned.sample))
             /\ (returned.failed <= 10 => returned.sample = returned.errors)
             /\ returned.replies = 2)
    /\ \A t \in Tasks :
          (task[t].kind = "cmd_send_all" /\ task[t].pc = "a_started")
          ~> (returned.kind = "cmd_send_all" /\ returned.reply = "summary")

\* a broadcast in which more than 10 recipients failed
C14_Witness ==
    /\ returned.kind = "cmd_send_all"
    /\ returned.reply = "summary"
    /\ returned.failed > 10
    /\ Len(returned.errors) > Len(returned.sample)
    /\ Len(returned.sample) = 10

NotifyPcs == {"s_notify", "c_notify"}

\* C15: notify_admins attempts one delivery to every admin, whichever of
\* the deliveries fail: each send that returns or raises takes exactly one
\* admin off the list, the loop goes on while admins remain, and after the
\* last one the caller goes on to its own reply (/start) or response
\* (check_join).
C15_NotifyEveryAdmin ==
    /\ [][\A t \in Tasks :
            /\ (task[t].pc \notin NotifyPcs /\ task'[t].pc \in NotifyPcs)
               => (task'[t].todo = ADMIN_IDS /\ ADMIN_IDS # {})
            /\ (task[t].pc \in NotifyPcs /\ task'[t] # task[t])
               => /\ answer' \in {"sent", "send_raised"}
                  /\ \E admin_id \in task[t].todo :
                        Post(t).todo = task[t].todo \ {admin_id}
                  /\ Post(t).notifs = task[t].notifs
                  /\ IF Post(t).todo # {}
                     THEN Post(t).pc = task[t].pc
                     ELSE IF task[t].kind = "start"
                     THEN /\ Post(t).pc = "s_reply"
                          /\ Post(t).reply = "success"
                          /\ Post(t).replies = 1
                     ELSE /\ Post(t).pc = "done"
                          /\ Post(t).code = 200
                          /\ Post(t).body = "verified_true"]_vars
    /\ [](returned.notifs # << >>
          => /\ returned.todo = {}
             /\ returned.kind = "start"
                => (returned.replies = 1 /\ returned.reply = "success")
             /\ returned.kind = "check_join"
                => (returned.code = 200 /\ returned.body = "verified_true"))

\* the last delivery of a notification failed and /start has replied
C15_Witness ==
    \E t \in Tasks :
        /\ task[t].kind = "start"
        /\ task[t].notifs # << >>
        /\ answer = "send_raised"
        /\ task[t].pc = "s_reply"
        /\ task[t].reply = "success"

\* the step in which a /start join_<app_id> enters start and is suspended
\* at get_chat_member
ClaimStep(t) ==
    /\ task[t].pc \in {"idle", "w_body"}
    /\ task'[t].pc = "s_oracle"

\* C16: every /start join_<app_id> by user u sets user_id[app_id] = u
\* before the Oracle answers, whatever the entry was, and an Oracle failure
\* leaves it so; user_id changes in no other step, so the entry is the user
\* of the last claim; a /start without deep-link payload changes nothing
\* in the registry.
C16_LastWriterWins ==
    [][/\ \A t \in Tasks :
            /\ ClaimStep(t)
               => /\ DictGet(APP_USER', task'[t].app_id) = Some(task'[t].user)
                  /\ \A a \in AppIds \ {task'[t].app_id} :
                        DictGet(APP_USER', a) = DictGet(APP_USER, a)
                  /\ task'[t].oracle = << task'[t].user >>
                  /\ task'[t].is_member = None
            /\ (OracleStep(t) /\ task[t].kind = "start" /\ answer' = Raised)
               => APP_USER' = APP_USER
            /\ (task'[t] # task[t] /\ Post(t).kind = "start" /\ Post(t).app_id = "")
               => registry' = registry
       /\ (returned'.pc = "done" /\ returned'.kind = "start"
                /\ returned'.app_id = "")
          => registry' = registry
       /\ APP_USER' # APP_USER => \E t \in Tasks : ClaimStep(t)]_vars

\* user 2 has claimed an app_id that user 1 had claimed and verified, and
\* the Oracle lookup for user 2 failed
C16_Witness ==
    \E t \in Tasks :
        /\ task[t].kind = "start"
        /\ task[t].raised
        /\ task[t].user = 2
        /\ DictGet(APP_USER, task[t].app_id) = Some(2)
        /\ Verified(task[t].app_id) = Some(TRUE)

\* C17: a reconciliation (by /start or check_join) that observes non-member
\* ends with verified = false, with join_source defined (UNKNOWN if it was
\* unset, its previous value otherwise) and without notification call.
C17_NonMemberReconciliation ==
    /\ [][\A t \in Tasks :
            (OracleStep(t) /\ answer' \in Statuses \ MemberClass)
            => LET a == task[t].app_id
               IN  /\ DictGet(APP_VERIFIED', a) = Some(FALSE)
                   /\ DictGet(APP_JOIN_SOURCE', a)
                        = Some(Tag(APP_JOIN_SOURCE, a))
                   /\ Post(t).notifs = << >>]_vars
    /\ []((Reconciles(returned) /\ Observed(returned) = "not_member")
          => /\ Verified(returned.app_id) = Some(FALSE)
             /\ returned.app_id \in DOMAIN APP_JOIN_SOURCE
             /\ returned.notifs = << >>)

\* C18: no entry of the registry is ever deleted: the key sets of user_id,
\* verified and join_source only grow, and a check_join for an app_id that
\* has a user_id entry is never answered as unclaimed.
C18_NeverDeleted ==
    [][/\ DOMAIN APP_USER \subseteq DOMAIN APP_USER'
       /\ DOMAIN APP_VERIFIED \subseteq DOMAIN APP_VERIFIED'
       /\ DOMAIN APP_JOIN_SOURCE \subseteq DOMAIN APP_JOIN_SOURCE'
       /\ (/\ returned'.pc = "done"
           /\ returned'.kind = "check_join"
           /\ returned'.secret_ok
           /\ TELEGRAM_APP # None
           /\ returned'.app_id \in DOMAIN APP_USER)
          => Reconciles(returned')]_vars

\* both app_ids are claimed and reconciled, and a check_join for one of
\* them has asked the Oracle
C18_Witness ==
    /\ DOMAIN APP_USER = AppIds
    /\ DOMAIN APP_VERIFIED = AppIds
    /\ returned.kind = "check_join"
    /\ Reconciles(returned)

\* the reply that goes with what the Oracle told the handler
ReplyFor(observed) ==
    IF observed = "member" THEN "success"
    ELSE IF observed = "not_member" THEN "not_member"
    ELSE "error"

\* C19: every /start with a deep-link payload returns, having called
\* reply_text exactly once: with the success message exactly when the
\* Oracle reported a member status, the not-yet-a-member message exactly
\* when it reported another status, the error message exactly when the
\* lookup failed; whether notification deliveries fail changes none of it.
C19_OneReply ==
    /\ []((returned.kind = "start" /\ returned.app_id # "")
          => /\ returned.replies = 1
             /\ returned.reply = ReplyFor(Observed(returned)))
    /\ [](\A t \in Tasks :
            (task[t].kind = "start" /\ task[t].app_id # "")
            => /\ task[t].pc \in {"s_oracle", "s_notify"} => task[t].replies = 0
               /\ task[t].pc = "s_reply"
                  => /\ task[t].replies = 1
                     /\ task[t].reply = ReplyFor(Observed(task[t])))
    /\ [][\A t \in Tasks :
            (OracleStep(t) /\ task[t].kind = "start")
            => Observed(Post(t)) =
                 IF answer' = Raised THEN "raised"
                 ELSE IF answer' \in MemberClass THEN "member"
                 ELSE "not_member"]_vars
    /\ \A t \in Tasks :
          (task[t].kind = "start" /\ task[t].app_id # "") ~> Free(t)

\* a /start has returned with its one success reply after it notified the
\* admins
C19_Witness ==
    /\ returned.kind = "start"
    /\ returned.notifs # << >>
    /\ returned.replies = 1
    /\ returned.reply = "success"
    /\ ADMIN_IDS # {}

\* the joined-later notifications a handler has made
JoinedLaterNotifs(r) ==
    {i \in 1..Len(r.notifs) :
        r.notifs[i] \in {"joined_later", "joined_later_check_join"}}

\* C20: join_source = 2 and the joined-later notification occur only for a
\* session whose user the Oracle reported as non-member at an earlier
\* check: while the Oracle has reported no non-member status at all (every
\* lookup reports a member status or fails), no session is tagged
\* JOINED_LATER and no joined-later notification is made.
C20_JoinedLaterNeedsNonMember ==
    /\ \A a \in AppIds : JoinSource(a) # Some(JOINED_LATER)
    /\ JoinedLaterNotifs(returned) = {}
    /\ \A t \in Tasks : JoinedLaterNotifs(task[t]) = {}

\* C21: in every reachable state a session that is verified has
\* join_source 1 or 2.
C21_VerifiedIsTagged ==
    \A a \in AppIds :
        Verified(a) = Some(TRUE) => Tag(APP_JOIN_SOURCE, a) \in {1, 2}

\* the runs in which the Oracle reports a member status for user 1 only,
\* handlers running one after the other
NextOnlyFirstUserMember ==
    /\ NextSeq
    /\ \A t \in Tasks :
          (OracleStep(t) /\ answer' \in MemberClass) => task[t].user = 1

SpecOnlyFirstUserMember == Init /\ [][NextOnlyFirstUserMember]_vars

\* C22: a verified session belongs to a user the Oracle has reported as a
\* member: while the Oracle has reported a member status for user 1 only,
\* no session whose user_id is another user is verified once every handler
\* has returned.
C22_VerifiedUserIsMember ==
    Sequential
    => \A a \in DOMAIN APP_USER :
          Verified(a) = Some(TRUE) => APP_USER[a] = 1

\* the runs in which no send_message of notify_admins raises, handlers
\* interleaving
NextSendsDelivered == Next /\ answer' # "send_raised"

SpecSendsDelivered == Init /\ [][NextSendsDelivered]_vars

\* handler r has sent the pre-existing-member notification of app_id to
\* every admin
PreExistingSent(r, app_id) ==
    /\ ADMIN_IDS # {}
    /\ r.kind = "start"
    /\ r.app_id = app_id
    /\ r.notifs = << "pre_existing" >>
    /\ r.todo = {}
    /\ r.pc \in {"s_reply", "done"}

\* C23: the pre-existing-member notification is sent at most once for an
\* app_id, also when /start handlers for it interleave: while every send
\* is delivered, no two handlers, in flight or just returned, have both
\* sent it for the same app_id.
C23_PreExistingOnce ==
    \A a \in AppIds :
        /\ \A t1, t2 \in Tasks :
              (PreExistingSent(task[t1], a) /\ PreExistingSent(task[t2], a))
              => t1 = t2
        /\ \A t \in Tasks :
              ~ (PreExistingSent(task[t], a) /\ PreExistingSent(returned, a))

\* C24: between suspension points the registry is key-consistent: every
\* app_id with a verified or join_source entry has a user_id entry, every
\* app_id with a join_source entry has a verified entry; so the counts of
\* cmd_stats satisfy verified app_ids <= registered app_ids and unique
\* verified users <= unique users.
C24_KeyConsistent ==
    /\ DOMAIN APP_VERIFIED \subseteq DOMAIN APP_USER
    /\ DOMAIN APP_JOIN_SOURCE \subseteq DOMAIN APP_USER
    /\ DOMAIN APP_JOIN_SOURCE \subseteq DOMAIN APP_VERIFIED
    /\ Stats[3] <= Stats[1]
    /\ Stats[4] <= Stats[2]

\* one app_id is claimed, verified and tagged while the /start of another
\* is suspended at the Oracle with only its user_id entry written
C24_Witness ==
    \E t \in Tasks :
        /\ task[t].pc = "s_oracle"
        /\ task[t].app_id \in DOMAIN APP_USER
        /\ task[t].app_id \notin DOMAIN APP_VERIFIED
        /\ \E a \in DOMAIN APP_JOIN_SOURCE : Verified(a) = Some(TRUE)
        /\ Stats[3] = 1
        /\ Stats[1] = 2

====
